---- MODULE Spec2Model ----
(***************************************************************************)
(* Budget & account-mapping import of sofus999/economic-api.               *)
(*                                                                         *)
(* Three implementations of the import pipeline live in the repository:    *)
(*   "csv"        scripts/import_budget_mapping.py, started as a           *)
(*                subprocess by POST /sync-csv (sync_api.trigger_csv_sync) *)
(*   "enhanced"   scripts/import_budget_mapping_enhanced.py, run_import()  *)
(*   "sharepoint" sync_api.trigger_sharepoint_sync (POST /sync-sharepoint) *)
(* They share the MySQL tables account_mapping, budget and sync_logs.      *)
(* Every run is a process of its own (Flask serves each request on its own *)
(* thread, the script is a subprocess); a step of the model is one         *)
(* database transaction or one purely local stage of a run.                *)
(***************************************************************************)
EXTENDS Integers, Sequences, FiniteSets, TLC

\* ------------------------------------------------------------------------
\* Bounds of the model
\* ------------------------------------------------------------------------
MaxRuns == 2            \* import runs triggered in one behaviour
MaxFiles == 2           \* files of one category found by one run

\* A run occupies a slot (a request thread of the service, or a process
\* running a script) from its trigger until its result has been handed over.
Runs == {1, 2}

NULL == "NULL"          \* SQL NULL / pandas NaN / Python None
NoKey == << >>          \* a NULL AccountKey

\* ------------------------------------------------------------------------
\* Input files.  A file name carries the agreement number (and the year of
\* a budget file); the contents are read when the file is loaded.
\* ------------------------------------------------------------------------
DefaultYear == 2024

\* Mapping files: the header row and the data rows (account, mapping, category).
MapFileSet ==
  { [agreement |-> "1001", header |-> {"account", "mapping"},
     rows |-> << [account |-> "100", mapping |-> "Rent", category |-> NULL],
                 [account |-> "200", mapping |-> "Tax",  category |-> NULL] >>],
    [agreement |-> "1001", header |-> {"account", "mapping", "category"},
     rows |-> << [account |-> "100", mapping |-> "Tax", category |-> "Cost"] >>],
    [agreement |-> "1001", header |-> {"account"},
     rows |-> << [account |-> "300", mapping |-> NULL, category |-> NULL] >>],
    [agreement |-> "1001", header |-> {"account", "mapping"},
     rows |-> << >>] }

\* Budget files: year and agreement of the file name, whether pandas can read
\* the file, and the line items left after melt, amount parsing and the
\* structural-row filter: description, month (position of the month column),
\* parsed amount and the statement section the source row lies in.
BudFileSet ==
  { [year |-> DefaultYear, agreement |-> "1001", readable |-> TRUE,
     items |-> << [mapping |-> "Rent", month |-> 1, amount |-> 1700, section |-> "Income Statement"] >>],
    [year |-> DefaultYear, agreement |-> "1001", readable |-> TRUE,
     items |-> << [mapping |-> "Rent", month |-> 1, amount |-> 900, section |-> "Income Statement"],
                  [mapping |-> "Loan", month |-> 1, amount |-> 50,  section |-> "Cash Flow Statement"] >>],
    [year |-> DefaultYear, agreement |-> "1001", readable |-> FALSE,
     items |-> << >>] }

\* ------------------------------------------------------------------------
\* Sequence helpers
\* ------------------------------------------------------------------------
RECURSIVE Concat(_)
\* pd.concat(frames, ignore_index=True)
Concat(frames) ==
  IF frames = << >> THEN << >> ELSE Head(frames) \o Concat(Tail(frames))

RECURSIVE SelectIdx(_, _, _)
\* the rows of s, from position i on, whose position is in idx
SelectIdx(s, idx, i) ==
  IF i > Len(s) THEN << >>
  ELSE (IF i \in idx THEN << s[i] >> ELSE << >>) \o SelectIdx(s, idx, i + 1)

\* Seq of the file lists of length n
FileLists(S, n) == [1..n -> S]

\* ------------------------------------------------------------------------
\* Mapping loader
\* ------------------------------------------------------------------------
Str(v) == IF v = NULL THEN "nan" ELSE v     \* astype(str)

\* AccountKey = account_number + "_" + agreement; the agreement is all digits,
\* so the pair determines the string and the string the pair.
AccountKeyOf(acc, agr) == << Str(acc), agr >>

MapLoadFails(f) == ~ ({"account", "mapping"} \subseteq f.header)

MapRowOf(f, r) ==
  [account_number      |-> r.account,
   agreement_number    |-> f.agreement,
   mapping_description |-> r.mapping,
   category            |-> IF "category" \in f.header THEN r.category ELSE NULL,
   sub_category        |-> NULL,
   AccountKey          |-> AccountKeyOf(r.account, f.agreement)]

\* dropna(how='all'): a row goes only when every retained column is empty
AllEmpty(f, r) ==
  /\ r.account = NULL
  /\ r.mapping = NULL
  /\ ("category" \in f.header => r.category = NULL)

LoadMappingFile(f) ==
  LET kept == SelectIdx(f.rows, {i \in DOMAIN f.rows : ~ AllEmpty(f, f.rows[i])}, 1)
  IN  [i \in DOMAIN kept |-> MapRowOf(f, kept[i])]

\* process_mapping_files of the enhanced script drops rows without a
\* mapping description instead
LoadMappingFileEnhanced(f) ==
  LET kept == SelectIdx(f.rows, {i \in DOMAIN f.rows : f.rows[i].mapping # NULL}, 1)
  IN  [i \in DOMAIN kept |-> MapRowOf(f, kept[i])]

\* positions of the files of a list that satisfy / do not satisfy ok
Positions(files, okSet) == SelectIdx([i \in DOMAIN files |-> i], okSet, 1)

MapOk(files) == {i \in DOMAIN files : ~ MapLoadFails(files[i])}

\* a load loop that gives up at the first file that fails
LoadMappingsStopAtFailure(files) ==
  LET bad == DOMAIN files \ MapOk(files)
      stop == IF bad = {} THEN Len(files) + 1
              ELSE CHOOSE i \in bad : \A j \in bad : i <= j
  IN  [frames  |-> [i \in 1..(stop - 1) |-> LoadMappingFile(files[i])],
       skipped |-> IF bad = {} THEN << >> ELSE << stop >>]

\* The load loop: every file is tried, a failing file is caught, reported and
\* skipped.  frames: the frames of the loaded files (all_map); skipped: the
\* positions of the files the except branch reported.
LoadMappings(files) ==
  LET okFiles == SelectIdx(files, MapOk(files), 1)
  IN  [frames  |-> [i \in DOMAIN okFiles |-> LoadMappingFile(okFiles[i])],
       skipped |-> Positions(files, DOMAIN files \ MapOk(files))]

LoadMappingsEnhanced(files) ==
  LET okFiles == SelectIdx(files, MapOk(files), 1)
  IN  [frames  |-> [i \in DOMAIN okFiles |-> LoadMappingFileEnhanced(okFiles[i])],
       skipped |-> Positions(files, DOMAIN files \ MapOk(files))]

\* a dedup that keeps the last row of every key
DedupMappingKeepLast(rows) ==
  SelectIdx(rows,
            {i \in DOMAIN rows :
               \A j \in (i + 1)..Len(rows) : rows[j].AccountKey # rows[i].AccountKey},
            1)

\* drop_duplicates(subset=["AccountKey"]): the first row of every key stays
DedupMapping(rows) ==
  SelectIdx(rows,
            {i \in DOMAIN rows :
               \A j \in 1..(i - 1) : rows[j].AccountKey # rows[i].AccountKey},
            1)

\* ------------------------------------------------------------------------
\* Budget loader
\* ------------------------------------------------------------------------
Matches(item, agr, lookup) ==
  SelectIdx(lookup,
            {k \in DOMAIN lookup :
               /\ lookup[k].mapping_description = item.mapping
               /\ lookup[k].agreement_number = agr},
            1)

BudgetRow(f, item, m) ==
  [account_number      |-> m.account_number,
   mapping_description |-> item.mapping,
   category            |-> m.category,
   sub_category        |-> m.sub_category,
   year                |-> f.year,
   month               |-> item.month,
   amount              |-> item.amount,
   agreement_number    |-> f.agreement,
   AccountKey          |-> m.AccountKey]

NoMatch ==
  [account_number |-> NULL, category |-> NULL, sub_category |-> NULL,
   AccountKey |-> NoKey]

RECURSIVE MergeLeft(_, _, _)
\* df.merge(lookup, on=[mapping_description, agreement_number], how="left"):
\* one row per matching lookup row, in lookup order; a row of nulls if none
MergeLeft(f, items, lookup) ==
  IF items = << >> THEN << >>
  ELSE LET ms == Matches(Head(items), f.agreement, lookup)
           out == IF ms = << >> THEN << BudgetRow(f, Head(items), NoMatch) >>
                  ELSE [k \in DOMAIN ms |-> BudgetRow(f, Head(items), ms[k])]
       IN  out \o MergeLeft(f, Tail(items), lookup)

Matched(rows) == SelectIdx(rows, {i \in DOMAIN rows : rows[i].AccountKey # NoKey}, 1)

Unmatched(rows) == SelectIdx(rows, {i \in DOMAIN rows : rows[i].AccountKey = NoKey}, 1)

\* Batch script: a file with unmatched rows reaches the section detection,
\* whose first statement reads the undefined name budget_file; the NameError
\* is caught by the loop and the file is skipped.
BudLoadFailsBatch(f, lookup) ==
  \/ ~ f.readable
  \/ Unmatched(MergeLeft(f, f.items, lookup)) # << >>

LoadBudgetFileBatch(f, lookup) == Matched(MergeLeft(f, f.items, lookup))

\* HTTP handler: unmatched rows are dropped (dropna(subset=["AccountKey"]))
BudLoadFailsHttp(f, lookup) == ~ f.readable

\* a loader that keeps the rows without a mapping
LoadBudgetFileHttpKeepUnmatched(f, lookup) == MergeLeft(f, f.items, lookup)

LoadBudgetFileHttp(f, lookup) == Matched(MergeLeft(f, f.items, lookup))

BudOkBatch(files, lookup) ==
  {i \in DOMAIN files : ~ BudLoadFailsBatch(files[i], lookup)}

LoadBudgetsBatch(files, lookup) ==
  LET okFiles == SelectIdx(files, BudOkBatch(files, lookup), 1)
  IN  [frames  |-> [i \in DOMAIN okFiles |-> LoadBudgetFileBatch(okFiles[i], lookup)],
       skipped |-> Positions(files, DOMAIN files \ BudOkBatch(files, lookup))]

BudOkHttp(files, lookup) ==
  {i \in DOMAIN files : ~ BudLoadFailsHttp(files[i], lookup)}

LoadBudgetsHttp(files, lookup) ==
  LET okFiles == SelectIdx(files, BudOkHttp(files, lookup), 1)
  IN  [frames  |-> [i \in DOMAIN okFiles |-> LoadBudgetFileHttp(okFiles[i], lookup)],
       skipped |-> Positions(files, DOMAIN files \ BudOkHttp(files, lookup))]

BudKey(r) == << r.mapping_description, r.agreement_number, r.year, r.month >>

\* drop_duplicates(subset=[mapping_description, agreement_number, year, month])
DedupBudget(rows) ==
  SelectIdx(rows,
            {i \in DOMAIN rows :
               \A j \in 1..(i - 1) : BudKey(rows[j]) # BudKey(rows[i])},
            1)

\* ------------------------------------------------------------------------
\* Storage
\* ------------------------------------------------------------------------
Keys(table) == {table[i].AccountKey : i \in DOMAIN table}

RECURSIVE Upsert(_, _)
\* INSERT ... ON DUPLICATE KEY UPDATE mapping_description, category
Upsert(table, rows) ==
  IF rows = << >> THEN table
  ELSE LET r == Head(rows)
           t == IF r.AccountKey \in Keys(table)
                THEN [i \in DOMAIN table |->
                        IF table[i].AccountKey = r.AccountKey
                        THEN [table[i] EXCEPT !.mapping_description = r.mapping_description,
                                              !.category = r.category]
                        ELSE table[i]]
                ELSE Append(table, r)
       IN  Upsert(t, Tail(rows))

RunningSharepoint(logs) ==
  {i \in DOMAIN logs : logs[i].status = "running" /\ logs[i].entity = "sharepoint_sync"}

\* ------------------------------------------------------------------------
\* Cells of a budget file: the amount parser and the structural-row filter.
\* A string is the sequence of its characters.
\* ------------------------------------------------------------------------
MaxLen == 5             \* characters of an amount cell

\* characters of an amount cell: two digits, the separators, the sign and
\* "x" for any character the cleaning removes (letters, blanks, currency)
Chars == {"0", "1", ",", ".", "-", "x"}

Digits == {"0", "1", "2", "3", "4", "5", "6", "7", "8", "9"}

None == << "None" >>    \* an empty cell: NaN / None

Cells == {None} \cup UNION {[1..n -> Chars] : n \in 0..MaxLen}

DigitVal(c) ==
  CASE c = "0" -> 0 [] c = "1" -> 1 [] c = "2" -> 2 [] c = "3" -> 3 [] c = "4" -> 4
    [] c = "5" -> 5 [] c = "6" -> 6 [] c = "7" -> 7 [] c = "8" -> 8 [] c = "9" -> 9

RECURSIVE DigitsVal(_)
DigitsVal(s) ==
  IF s = << >> THEN 0 ELSE DigitsVal(SubSeq(s, 1, Len(s) - 1)) * 10 + DigitVal(s[Len(s)])

Count(s, c) == Cardinality({i \in DOMAIN s : s[i] = c})

\* str.find / str.rfind, counted from 1; 0 if the character does not occur
FirstIndex(s, c) ==
  IF Count(s, c) = 0 THEN 0 ELSE CHOOSE i \in DOMAIN s : s[i] = c /\ \A j \in 1..(i - 1) : s[j] # c

LastIndex(s, c) ==
  IF Count(s, c) = 0 THEN 0 ELSE CHOOSE i \in DOMAIN s : s[i] = c /\ \A j \in (i + 1)..Len(s) : s[j] # c

\* str.replace(c, "") and str.replace(c, d)
Remove(s, c) == SelectIdx(s, {i \in DOMAIN s : s[i] # c}, 1)

Replace(s, c, d) == [i \in DOMAIN s |-> IF s[i] = c THEN d ELSE s[i]]

\* s.split(c)[0] and s.split(c)[1]
Before(s, c) == SubSeq(s, 1, FirstIndex(s, c) - 1)

After(s, c) ==
  LET rest == SubSeq(s, FirstIndex(s, c) + 1, Len(s))
  IN  IF Count(rest, c) = 0 THEN rest ELSE SubSeq(rest, 1, FirstIndex(rest, c) - 1)

\* re.sub(r'[^\d,.\-]', '', s)
Clean(s) == SelectIdx(s, {i \in DOMAIN s : s[i] \in Digits \cup {",", ".", "-"}}, 1)

Unsigned(s) == IF s # << >> /\ s[1] = "-" THEN Tail(s) ELSE s

\* int(s) succeeds: an optional sign and at least one digit
IsInt(s) == Unsigned(s) # << >> /\ \A i \in DOMAIN Unsigned(s) : Unsigned(s)[i] \in Digits

IntVal(s) == IF s[1] = "-" THEN 0 - DigitsVal(Unsigned(s)) ELSE DigitsVal(s)

\* float(s) succeeds on a cleaned string: an optional sign, digits with at
\* most one period, at least one digit
IsFloat(s) ==
  /\ \A i \in DOMAIN Unsigned(s) : Unsigned(s)[i] \in Digits \cup {"."}
  /\ Count(Unsigned(s), ".") <= 1
  /\ \E i \in DOMAIN Unsigned(s) : Unsigned(s)[i] \in Digits

\* results of a parser: a number mant / 10^scale without trailing zeros in
\* the fraction, null, or a raised ValueError
NullAmount == [kind |-> "null", mant |-> 0, scale |-> 0]

ValueError == [kind |-> "ValueError", mant |-> 0, scale |-> 0]

Pending == [kind |-> "pending", mant |-> 0, scale |-> 0]

RECURSIVE Number(_, _)
Number(mant, scale) ==
  IF mant = 0 THEN [kind |-> "number", mant |-> 0, scale |-> 0]
  ELSE IF scale > 0 /\ mant % 10 = 0 THEN Number(mant \div 10, scale - 1)
  ELSE [kind |-> "number", mant |-> mant, scale |-> scale]

\* try: return float(clean_str)  except ValueError: return None
Float(s) ==
  IF ~ IsFloat(s) THEN NullAmount
  ELSE LET body   == Unsigned(s)
           digits == Remove(body, ".")
           scale  == IF Count(body, ".") = 0 THEN 0 ELSE Len(body) - FirstIndex(body, ".")
           mant   == DigitsVal(digits)
       IN  Number(IF s[1] = "-" THEN 0 - mant ELSE mant, scale)

\* both separators: the last one is the decimal separator
BothSeparators(c) ==
  IF LastIndex(c, ",") > LastIndex(c, ".")
  THEN Float(Replace(Remove(c, "."), ",", "."))
  ELSE Float(Remove(c, ","))

\* a comma branch that always takes the comma as the decimal point
CommaOnlyAlwaysDecimal(c) == Float(Replace(c, ",", "."))

\* only commas: one comma with at most 2 characters after it is a decimal
\* point, otherwise commas are thousands separators
CommaOnly(c) ==
  IF Count(c, ",") = 1 /\ Len(After(c, ",")) <= 2
  THEN Float(Replace(c, ",", "."))
  ELSE Float(Remove(c, ","))

\* only periods: the condition is evaluated left to right, and int() of a
\* part that is not an integer raises ValueError outside the try block
PeriodOnly(c) ==
  IF Count(c, ".") = 1 /\ Len(Before(c, ".")) <= 2 /\ Len(After(c, ".")) = 1
  THEN IF ~ IsInt(After(c, ".")) THEN ValueError
       ELSE IF IntVal(After(c, ".")) = 0 THEN Float(Remove(c, "."))
       ELSE IF ~ IsInt(Before(c, ".")) THEN ValueError
       ELSE IF IntVal(Before(c, ".")) <= 99 THEN Float(c)
       ELSE Float(Remove(c, "."))
  ELSE Float(Remove(c, "."))

\* parse_european_number of the batch script
parse_european_number(value_str) ==
  IF value_str = None \/ value_str = << >> THEN NullAmount
  ELSE LET clean_str == Clean(value_str)
       IN  IF clean_str = << >> \/ clean_str = << "-" >> THEN NullAmount
           ELSE IF Count(clean_str, ",") > 0 /\ Count(clean_str, ".") > 0
                THEN BothSeparators(clean_str)
           ELSE IF Count(clean_str, ",") > 0 THEN CommaOnly(clean_str)
           ELSE IF Count(clean_str, ".") > 0 THEN PeriodOnly(clean_str)
           ELSE Float(clean_str)

\* process_csv_file of the service: strip, comma to period, pd.to_numeric
\* with errors="coerce" (astype(str) of an empty cell is "nan")
clean_amount(value_str) ==
  IF value_str = None THEN NullAmount
  ELSE Float(Replace(Clean(value_str), ",", "."))
\* descriptions of budget rows
D_TOTAL == << "T", "O", "T", "A", "L" >>

D_Total == << "T", "o", "t", "a", "l" >>

D_total == << "t", "o", "t", "a", "l" >>

D_TotalLeaseIncome == << "T", "o", "t", "a", "l", " ", "L", "e", "a", "s", "e", " ", "I", "n", "c", "o", "m", "e" >>

D_LeaseIncome == << "L", "e", "a", "s", "e", " ", "I", "n", "c", "o", "m", "e" >>

D_Subtotal == << "S", "u", "b", "t", "o", "t", "a", "l" >>

D_CashAtBank == << "C", "a", "s", "h", " ", "a", "t", " ", "b", "a", "n", "k" >>

D_BankBalance == << "B", "a", "n", "k", " ", "b", "a", "l", "a", "n", "c", "e" >>

D_StatementFee == << "S", "t", "a", "t", "e", "m", "e", "n", "t", " ", "f", "e", "e" >>

D_BalanceSheetBanner == << "B", "A", "L", "A", "N", "C", "E", " ", "S", "H", "E", "E", "T", " ", "(", "t", ".", "d", "k", "k", ")" >>

D_IncomeBanner == << "I", "N", "C", "O", "M", "E", " ", "S", "T", "A", "T", "E", "M", "E", "N", "T", " ", "(", "t", ".", "d", "k", "k", ")" >>

D_CashFlowBanner == << "C", "A", "S", "H", "-", "F", "L", "O", "W", " ", "S", "T", "A", "T", "E", "M", "E", "N", "T", " ", "(", "t", ".", "d", "k", "k", ")" >>

D_Comment == << "C", "O", "M", "M", "E", "N", "T" >>

D_Empty == << >>

Descriptions ==
  {D_TOTAL, D_Total, D_total, D_TotalLeaseIncome, D_LeaseIncome, D_Subtotal, D_CashAtBank,
   D_BankBalance, D_StatementFee, D_BalanceSheetBanner, D_IncomeBanner, D_CashFlowBanner, D_Comment, D_Empty}

\* the literals of the filter expressions, in upper case
P_TOTAL == << "T", "O", "T", "A", "L" >>

P_COMMENT == << "C", "O", "M", "M", "E", "N", "T" >>

P_STATEMENT == << "S", "T", "A", "T", "E", "M", "E", "N", "T" >>

P_BALANCE == << "B", "A", "L", "A", "N", "C", "E" >>

P_CASH == << "C", "A", "S", "H" >>

P_STATEMENT_OPEN == << "S", "T", "A", "T", "E", "M", "E", "N", "T", " ", "(" >>

P_BALANCE_SHEET_OPEN == << "B", "A", "L", "A", "N", "C", "E", " ", "S", "H", "E", "E", "T", " ", "(" >>

P_INCOME_STATEMENT_OPEN == << "I", "N", "C", "O", "M", "E", " ", "S", "T", "A", "T", "E", "M", "E", "N", "T", " ", "(" >>

P_CASH_FLOW_STATEMENT_OPEN == << "C", "A", "S", "H", "-", "F", "L", "O", "W", " ", "S", "T", "A", "T", "E", "M", "E", "N", "T", " ", "(" >>

P_DKK_CLOSE == << "D", "K", "K", ")" >>

LowerCase ==
  << "a", "b", "c", "d", "e", "f", "g", "h", "i", "j", "k", "l", "m",
     "n", "o", "p", "q", "r", "s", "t", "u", "v", "w", "x", "y", "z" >>

UpperCase ==
  << "A", "B", "C", "D", "E", "F", "G", "H", "I", "J", "K", "L", "M",
     "N", "O", "P", "Q", "R", "S", "T", "U", "V", "W", "X", "Y", "Z" >>

\* case=False: both sides are compared in upper case
Upper(s) ==
  [i \in DOMAIN s |->
     IF \E k \in DOMAIN LowerCase : LowerCase[k] = s[i]
     THEN UpperCase[CHOOSE k \in DOMAIN LowerCase : LowerCase[k] = s[i]]
     ELSE s[i]]

\* the literal p stands in s at position i
StartsAt(s, i, p) ==
  /\ i >= 1 /\ i + Len(p) - 1 <= Len(s)
  /\ \A k \in DOMAIN p : s[i + k - 1] = p[k]

Contains(s, p) == \E i \in 1..(Len(s) + 1) : StartsAt(s, i, p)

\* head \(.*dkk\) matched from position i
BannerAt(s, i, head) ==
  /\ StartsAt(s, i, head)
  /\ \E j \in (i + Len(head))..Len(s) : StartsAt(s, j, P_DKK_CLOSE)

\* batch script: str.contains(r"^TOTAL|^COMMENT|STATEMENT \(.*dkk\)|
\* ^BALANCE SHEET \(.*dkk\)|^INCOME STATEMENT \(.*dkk\)|
\* ^CASH-FLOW STATEMENT \(.*dkk\)|^$", case=False)
StructuralBatch(d) ==
  LET u == Upper(d)
  IN  \/ StartsAt(u, 1, P_TOTAL)
      \/ StartsAt(u, 1, P_COMMENT)
      \/ \E i \in DOMAIN u : BannerAt(u, i, P_STATEMENT_OPEN)
      \/ BannerAt(u, 1, P_BALANCE_SHEET_OPEN)
      \/ BannerAt(u, 1, P_INCOME_STATEMENT_OPEN)
      \/ BannerAt(u, 1, P_CASH_FLOW_STATEMENT_OPEN)
      \/ u = << >>

\* service: str.contains(r"TOTAL|COMMENT|STATEMENT|BALANCE|CASH|^$", case=False)
StructuralHttp(d) ==
  LET u == Upper(d)
  IN  \/ Contains(u, P_TOTAL)
      \/ Contains(u, P_COMMENT)
      \/ Contains(u, P_STATEMENT)
      \/ Contains(u, P_BALANCE)
      \/ Contains(u, P_CASH)
      \/ u = << >>

\* ------------------------------------------------------------------------
\* Text of a mapping file.  pd.read_csv turns the text of a cell into a
\* value: the texts pandas takes for missing (its default na_values) become
\* NaN, and a column of numbers with a missing value is read as float64.
\* ------------------------------------------------------------------------
MaxRows == 2            \* data rows of a mapping file under the loaders

AccountCells == {"", "#N/A", "100"}

MappingCells == {"", "#N/A", "Rent"}

\* members of the default na_values of pd.read_csv
NaValues == {"", "#N/A"}

IsNa(cell) == cell \in NaValues

\* mapping files: the text of the account and of the mapping cell of every row
MappingTexts ==
  UNION {[1..n -> [account : AccountCells, mapping : MappingCells]] : n \in 0..MaxRows}

\* the account column as astype(str) prints it
ReadAccount(text, i) ==
  IF IsNa(text[i].account) THEN NULL
  ELSE IF \E j \in DOMAIN text : IsNa(text[j].account) THEN text[i].account \o ".0"
  ELSE text[i].account

\* pd.read_csv(mf, sep=";") of a file of agreement 1001 with the columns
\* account and mapping
read_csv(text) ==
  [agreement |-> "1001", header |-> {"account", "mapping"},
   rows |-> [i \in DOMAIN text |->
               [account  |-> ReadAccount(text, i),
                mapping  |-> IF IsNa(text[i].mapping) THEN NULL ELSE text[i].mapping,
                category |-> NULL]]]

\* ------------------------------------------------------------------------
\* Section detection of the batch script: the branch for the rows without a
\* mapping.  raw_full is the file as read again, one description per row;
\* the index of a row is its position, counted from 0.
\* ------------------------------------------------------------------------
MaxRawRows == 4         \* rows of a budget file under the section detection

D_Loan == << "L", "o", "a", "n" >>

D_Fee == << "F", "e", "e" >>

RawRows == {D_IncomeBanner, D_BalanceSheetBanner, D_CashFlowBanner, D_Loan, D_Fee}

RawFiles == UNION {[1..n -> RawRows] : n \in 1..MaxRawRows}

P_INCOME_STATEMENT == << "I", "N", "C", "O", "M", "E", " ", "S", "T", "A", "T", "E", "M", "E", "N", "T" >>

P_BALANCE_SHEET == << "B", "A", "L", "A", "N", "C", "E", " ", "S", "H", "E", "E", "T" >>

P_CASH_FLOW_STATEMENT == << "C", "A", "S", "H", "-", "F", "L", "O", "W", " ", "S", "T", "A", "T", "E", "M", "E", "N", "T" >>

\* which marker the loop over raw_full assigns at a row
MarkerOf(desc) ==
  IF Contains(Upper(desc), P_INCOME_STATEMENT) THEN "income_start"
  ELSE IF Contains(Upper(desc), P_BALANCE_SHEET) THEN "balance_start"
  ELSE IF Contains(Upper(desc), P_CASH_FLOW_STATEMENT) THEN "cashflow_start"
  ELSE "none"

\* the rows that assign marker m
MarkedRows(raw, m) == {i \in DOMAIN raw : MarkerOf(raw[i]) = m}

\* section_markers[m] after the loop: every assignment overwrites the one
\* before, so the index of the last such row stays
section_marker(raw, m) ==
  (CHOOSE i \in MarkedRows(raw, m) : \A j \in MarkedRows(raw, m) : j <= i) - 1

\* matching_rows.index[0]: the first row of raw_full with the description
row_idx(raw, mapping_desc) ==
  (CHOOSE i \in DOMAIN raw :
     /\ raw[i] = mapping_desc
     /\ \A j \in DOMAIN raw : raw[j] = mapping_desc => i <= j) - 1

get_category_from_position(raw, mapping_desc) ==
  IF ~ \E i \in DOMAIN raw : raw[i] = mapping_desc THEN "Unknown"
  ELSE IF MarkedRows(raw, "cashflow_start") # {}
          /\ row_idx(raw, mapping_desc) >= section_marker(raw, "cashflow_start")
       THEN "Cash Flow Statement"
  ELSE IF MarkedRows(raw, "balance_start") # {}
          /\ row_idx(raw, mapping_desc) >= section_marker(raw, "balance_start")
       THEN "Balance Sheet"
  ELSE IF MarkedRows(raw, "income_start") # {}
          /\ row_idx(raw, mapping_desc) >= section_marker(raw, "income_start")
       THEN "Income Statement"
  ELSE "Unknown"

\* ------------------------------------------------------------------------
\* A budget file against a lookup: the inputs of the merge and the dedup
\* ------------------------------------------------------------------------
MaxLookup == 3          \* rows of the lookup
MaxItems == 2           \* line items of the budget file

\* rows of account_mapping of agreement 1001
LookupRows ==
  {MapRowOf([agreement |-> "1001", header |-> {"account", "mapping"}],
            [account |-> a, mapping |-> m, category |-> NULL]) :
     a \in {"100", "200", "300"}, m \in {"Rent", "Tax"}}

\* the lookup as read from account_mapping, whose primary key is AccountKey
Lookups ==
  {l \in UNION {[1..n -> LookupRows] : n \in 0..MaxLookup} :
     \A i, j \in DOMAIN l : i # j => l[i].AccountKey # l[j].AccountKey}

LineItemSet ==
  {[mapping |-> m, month |-> mo, amount |-> am,
    section |-> IF m = "Loan" THEN "Cash Flow Statement" ELSE "Income Statement"] :
     m \in {"Rent", "Tax", "Loan"}, mo \in {1, 2}, am \in {1700, 900}}

BudgetFiles ==
  {[year |-> DefaultYear, agreement |-> "1001", readable |-> TRUE, items |-> it] :
     it \in UNION {[1..n -> LineItemSet] : n \in 0..MaxItems}}

NoBudgetFile == [year |-> 0, agreement |-> "", readable |-> FALSE, items |-> << >>]

\* ------------------------------------------------------------------------
\* GET /sync-history
\* ------------------------------------------------------------------------
\* the operation the handler writes into its sync_logs rows
Op_download_and_import ==
  << "d", "o", "w", "n", "l", "o", "a", "d", "_", "a", "n", "d", "_",
     "i", "m", "p", "o", "r", "t" >>

P_sharepoint == << "s", "h", "a", "r", "e", "p", "o", "i", "n", "t" >>

\* operation LIKE '%sharepoint%' (the collation ignores case)
Like(s, p) == Contains(Upper(s), Upper(p))

Reverse(s) == [i \in DOMAIN s |-> s[Len(s) + 1 - i]]

\* the WHERE clause of the filter
Selected(row, entity_filter) ==
  CASE entity_filter = "all" -> TRUE
    [] entity_filter = "sharepoint" ->
         /\ row.entity \in {"sharepoint_sync", "account_mapping", "budget"}
         /\ Like(row.operation, P_sharepoint)
    [] entity_filter \in {"account_mapping", "budget"} -> row.entity = entity_filter

\* SELECT ... FROM sync_logs WHERE ... ORDER BY started_at DESC: the rows
\* are inserted in the order of started_at, so the newest has the highest id
get_sync_history(logs, entity_filter) ==
  Reverse(SelectIdx(logs, {i \in DOMAIN logs : Selected(logs[i], entity_filter)}, 1))

\* ------------------------------------------------------------------------
\* State
\* ------------------------------------------------------------------------
VARIABLES
  account_mapping,   \* table account_mapping, rows in insertion order
  budget,            \* table budget
  sync_logs,         \* table sync_logs; the id of a row is its position
  sharepoint_env,    \* deployment of the service: client library, credentials
  clients,           \* do the callers wait for a run to end before the next trigger
  started,           \* number of runs triggered so far
  run,               \* the local state of the run in every slot
  amount_cell,       \* an amount cell of a budget file, as read
  description,       \* the description of a budget row
  amount,            \* what the batch script and the service make of the cell
  kept,              \* whether their filters keep the row
  mapping_text,      \* the text of a mapping file
  map_frames,        \* the frame every mapping loader makes of it
  raw_full,          \* the descriptions of the rows of a budget file
  category,          \* the section the batch script assigns to every row
  lookup_df,         \* the lookup a budget file is merged with
  bf,                \* the budget file
  deduped_bud_df     \* the rows the batch script and the service persist of it

mapping_loader == << mapping_text, map_frames >>

section_detection == << raw_full, category >>

budget_loader == << lookup_df, bf, deduped_bud_df >>

loaders == << mapping_loader, section_detection, budget_loader >>

vars == << account_mapping, budget, sync_logs, sharepoint_env, clients, started, run,
           amount_cell, description, amount, kept, loaders >>

\* what no step of an import run changes: the deployment, the callers and the
\* cell and the file under the loaders
env == << sharepoint_env, clients, amount_cell, description, amount, kept, loaders >>

Kinds == {"csv", "enhanced", "sharepoint"}

StageOrder ==
  << "Discovering", "LoadingMappings", "ReconcilingMappings",
     "LoadingBudgets", "ReconcilingBudgets" >>

Terminal == {"Done", "Failed", "Aborted", "Rejected"}

NoSummary == [status |-> "none", reason |-> "", errors |-> << >>, http |-> 0]

NotLoaded == 0 - 1

IdleRun ==
  [kind          |-> "none",
   pc            |-> "Idle",
   mapping_files |-> 0,          \* len(mapping_files) / len(account_files)
   budget_files  |-> 0,          \* len(budget_files)
   all_map       |-> << >>,
   map_df        |-> << >>,
   lookup        |-> << >>,
   all_bud       |-> << >>,
   bud_df        |-> << >>,
   import_results |-> << >>,     \* sharepoint handler: messages of the response
   reported      |-> << >>,      \* files the except branches reported: <<stage, position>>
   sync_log_id   |-> 0,          \* 0 is None
   summary       |-> NoSummary,  \* what the run hands to its caller
   \* history of the run, kept for the properties
   stages        |-> << >>,      \* stages entered so far
   truncated     |-> {},         \* tables this run has truncated
   pre           |-> << >>,      \* contents of the table under reconcile before the truncate
   read          |-> << >>,      \* the files the load loop of the current stage has read
   map_rows      |-> NotLoaded,  \* rows the mapping stage produced
   bud_rows      |-> NotLoaded]  \* rows the budget stage produced

InitStore ==
  /\ account_mapping = << >>
  /\ budget = << >>
  /\ sync_logs = << >>
  /\ sharepoint_env \in {"unavailable", "no_credentials", "configured"}
  /\ started = 0
  /\ run = [r \in Runs |-> IdleRun]

\* no cell is under the loaders
NoCell ==
  /\ amount_cell = None
  /\ description = << >>
  /\ amount = [batch |-> Pending, http |-> Pending]
  /\ kept = [batch |-> "pending", http |-> "pending"]

NotRead == [done |-> FALSE, rows |-> << >>]

\* no file is under the loaders
NoFile ==
  /\ mapping_text = << >>
  /\ map_frames = [batch |-> NotRead, enhanced |-> NotRead, http |-> NotRead]
  /\ raw_full = << >>
  /\ category = NotRead
  /\ lookup_df = << >>
  /\ bf = NoBudgetFile
  /\ deduped_bud_df = [batch |-> NotRead, http |-> NotRead]

\* callers that trigger one run after the other
Init == InitStore /\ clients = "sequential" /\ NoCell /\ NoFile

\* callers whose requests overlap
InitOverlap == InitStore /\ clients = "overlapping" /\ NoCell /\ NoFile

\* one cell of a budget file goes through the loaders: an amount cell next to
\* a plain description, or a description
InitCells ==
  /\ account_mapping = << >> /\ budget = << >> /\ sync_logs = << >>
  /\ sharepoint_env = "configured" /\ clients = "sequential"
  /\ started = 0
  /\ run = [r \in Runs |-> IdleRun]
  /\ \/ amount_cell \in Cells /\ description = D_LeaseIncome
     \/ amount_cell = None /\ description \in Descriptions
  /\ amount = [batch |-> Pending, http |-> Pending]
  /\ kept = [batch |-> "pending", http |-> "pending"]
  /\ NoFile

\* no run is started: the tables are empty and the slots idle
NoRun ==
  /\ account_mapping = << >> /\ budget = << >> /\ sync_logs = << >>
  /\ sharepoint_env = "configured" /\ clients = "sequential"
  /\ started = 0
  /\ run = [r \in Runs |-> IdleRun]

\* a mapping file or a budget file goes through the loaders
InitFiles ==
  /\ NoRun /\ NoCell
  /\ \/ /\ mapping_text \in MappingTexts
        /\ raw_full = << >> /\ lookup_df = << >> /\ bf = NoBudgetFile
     \/ /\ raw_full \in RawFiles
        /\ mapping_text = << >> /\ lookup_df = << >> /\ bf = NoBudgetFile
     \/ /\ lookup_df \in Lookups /\ bf \in BudgetFiles
        /\ mapping_text = << >> /\ raw_full = << >>
  /\ map_frames = [batch |-> NotRead, enhanced |-> NotRead, http |-> NotRead]
  /\ category = NotRead
  /\ deduped_bud_df = [batch |-> NotRead, http |-> NotRead]

\* Overlapping runs are explored with at most one file per category.
FileCounts == IF clients = "overlapping" THEN {0, 1} ELSE 0..MaxFiles

\* a run leaves its frames behind when it ends
Ended(rec, pcv, summ) ==
  [rec EXCEPT !.pc = pcv, !.summary = summ,
              !.all_map = << >>, !.map_df = << >>, !.lookup = << >>,
              !.all_bud = << >>, !.bud_df = << >>, !.pre = << >>,
              !.read = << >>, !.import_results = << >>]

Enter(rec, pcv, stage) ==
  [rec EXCEPT !.pc = pcv, !.stages = Append(@, stage)]

Summary(status, reason, errors, http) ==
  [status |-> status, reason |-> reason, errors |-> errors, http |-> http]

\* UPDATE sync_logs SET status = ..., record_count = ... WHERE id = :id
UpdateLog(logs, id, status, count) ==
  [i \in DOMAIN logs |->
     IF i = id THEN [logs[i] EXCEPT !.status = status, !.record_count = count]
     ELSE logs[i]]

LogRow(status) ==
  [entity |-> "sharepoint_sync", operation |-> Op_download_and_import,
   status |-> status, record_count |-> 0]

Reported(stage, skipped) == [i \in DOMAIN skipped |-> << stage, skipped[i] >>]

ErrorEntries(stage, skipped) ==
  [i \in DOMAIN skipped |-> [entry |-> "error", stage |-> stage, n |-> skipped[i]]]

Info(stage, count) == [entry |-> "info", stage |-> stage, n |-> count]

\* An exception that leaves the run: the script dies with a traceback on
\* stderr, run_import and the HTTP handler catch it in their outer except.
RaiseRec(rec, reason) ==
  CASE rec.kind = "csv"        -> Ended(rec, "Failed", Summary("error", "traceback", << >>, 500))
    [] rec.kind = "enhanced"   -> Ended(rec, "Failed", Summary("failed", reason, << >>, 0))
    [] rec.kind = "sharepoint" -> Ended(rec, "Failed", Summary("error", reason, << >>, 500))

RaiseLogs(rec) ==
  IF rec.kind = "sharepoint" /\ rec.sync_log_id # 0
  THEN UpdateLog(sync_logs, rec.sync_log_id, "error", sync_logs[rec.sync_log_id].record_count)
  ELSE sync_logs

\* ------------------------------------------------------------------------
\* Triggers
\* ------------------------------------------------------------------------
\* A trigger takes the first free slot; sequential callers wait until the
\* slots are free.
CanTrigger(r) ==
  /\ started < MaxRuns
  /\ run[r].pc = "Idle"
  /\ \A q \in Runs : q < r => run[q].pc # "Idle"
  /\ clients = "sequential" => \A q \in Runs : run[q].pc = "Idle"

\* POST /sync-csv: the batch script starts as a subprocess
TriggerCsv(r) ==
  /\ CanTrigger(r)
  /\ run' = [run EXCEPT ![r] = Enter([@ EXCEPT !.kind = "csv"], "discover", "Discovering")]
  /\ started' = started + 1
  /\ UNCHANGED << account_mapping, budget, sync_logs, env >>

\* run_import() of the enhanced script
TriggerEnhanced(r) ==
  /\ CanTrigger(r)
  /\ run' = [run EXCEPT ![r] =
               Enter([@ EXCEPT !.kind = "enhanced",
                               !.summary = Summary("started", "", << >>, 0)],
                     "discover", "Discovering")]
  /\ started' = started + 1
  /\ UNCHANGED << account_mapping, budget, sync_logs, env >>

\* POST /sync-sharepoint
TriggerSharepoint(r) ==
  /\ CanTrigger(r)
  /\ run' = [run EXCEPT ![r] =
               IF sharepoint_env = "unavailable"
               THEN Ended([@ EXCEPT !.kind = "sharepoint"], "Failed",
                          Summary("error", "client not available", << >>, 500))
               ELSE [@ EXCEPT !.kind = "sharepoint", !.pc = "check_running"]]
  /\ started' = started + 1
  /\ UNCHANGED << account_mapping, budget, sync_logs, env >>

\* a guard that lets every request pass
SpCheckRunningAlwaysAccepts(r) ==
  /\ run[r].pc = "check_running"
  /\ run' = [run EXCEPT ![r] = [@ EXCEPT !.pc = "insert_log"]]
  /\ UNCHANGED << account_mapping, budget, sync_logs, env, started >>

\* the guard: is a sharepoint_sync row 'running'?
SpCheckRunning(r) ==
  /\ run[r].pc = "check_running"
  /\ run' = [run EXCEPT ![r] =
               IF RunningSharepoint(sync_logs) # {}
               THEN Ended(@, "Rejected", Summary("error", "already running", << >>, 409))
               ELSE [@ EXCEPT !.pc = "insert_log"]]
  /\ UNCHANGED << account_mapping, budget, sync_logs, env, started >>

\* a second transaction inserts the 'running' row
SpInsertLog(r) ==
  /\ run[r].pc = "insert_log"
  /\ sync_logs' = Append(sync_logs, LogRow("running"))
  /\ run' = [run EXCEPT ![r] =
               Enter([@ EXCEPT !.sync_log_id = Len(sync_logs) + 1], "download", "Discovering")]
  /\ UNCHANGED << account_mapping, budget, env, started >>

\* ------------------------------------------------------------------------
\* Discovery
\* ------------------------------------------------------------------------
\* batch script: glob of the mapping and budget files; exit(0) if either is missing
Discover(r) ==
  /\ run[r].kind = "csv" /\ run[r].pc = "discover"
  /\ \E nm \in FileCounts, nb \in FileCounts :
       LET rec == [run[r] EXCEPT !.mapping_files = nm, !.budget_files = nb]
       IN  run' = [run EXCEPT ![r] =
                     IF nm = 0 \/ nb = 0
                     THEN Ended(rec, "Aborted", Summary("success", "", << >>, 200))
                     ELSE Enter(rec, "load_map", "LoadingMappings")]
  /\ UNCHANGED << account_mapping, budget, sync_logs, env, started >>

\* run_import: discover_files(); raises if either list is empty
EnhDiscover(r) ==
  /\ run[r].kind = "enhanced" /\ run[r].pc = "discover"
  /\ \E nm \in FileCounts, nb \in FileCounts :
       LET rec == [run[r] EXCEPT !.mapping_files = nm, !.budget_files = nb]
       IN  run' = [run EXCEPT ![r] =
                     IF nm = 0 \/ nb = 0
                     THEN RaiseRec(rec, "No mapping or budget files found")
                     ELSE Enter(rec, "load_map", "LoadingMappings")]
  /\ UNCHANGED << account_mapping, budget, sync_logs, env, started >>

\* HTTP handler: credentials, download; nothing to import if both lists are empty
SpDownload(r) ==
  /\ run[r].kind = "sharepoint" /\ run[r].pc = "download"
  /\ \/ /\ sharepoint_env = "no_credentials"
        /\ sync_logs' = UpdateLog(sync_logs, run[r].sync_log_id, "error", 0)
        /\ run' = [run EXCEPT ![r] =
                     Ended(@, "Failed", Summary("error", "credentials not configured", << >>, 500))]
     \/ /\ sharepoint_env = "configured"
        /\ sync_logs' = Append(sync_logs, LogRow("error"))
        /\ run' = [run EXCEPT ![r] =
                     Ended(@, "Failed", Summary("error", "download failed", << >>, 500))]
     \/ /\ sharepoint_env = "configured"
        /\ \E nm \in FileCounts, nb \in FileCounts :
             LET rec == [run[r] EXCEPT !.mapping_files = nm, !.budget_files = nb]
             IN  run' = [run EXCEPT ![r] =
                           IF nm = 0 /\ nb = 0
                           THEN Ended(rec, "Aborted", Summary("warning", "", << >>, 200))
                           ELSE IF nm = 0 THEN [rec EXCEPT !.pc = "reload"]
                           ELSE Enter(rec, "load_map", "LoadingMappings")]
        /\ UNCHANGED sync_logs
  /\ UNCHANGED << account_mapping, budget, env, started >>

\* ------------------------------------------------------------------------
\* Mapping stage
\* ------------------------------------------------------------------------
\* batch script: load every mapping file; exit(1) if none loaded (the causes
\* went to stdout, stderr is empty)
CsvLoadMappings(r) ==
  /\ run[r].kind = "csv" /\ run[r].pc = "load_map"
  /\ \E files \in FileLists(MapFileSet, run[r].mapping_files) :
       LET res == LoadMappings(files)
           rec == [run[r] EXCEPT !.all_map = res.frames, !.read = files,
                                 !.reported = @ \o Reported("mapping", res.skipped)]
       IN  run' = [run EXCEPT ![r] =
                     IF res.frames = << >>
                     THEN Ended([rec EXCEPT !.map_rows = 0], "Failed",
                                Summary("error", "", << >>, 500))
                     ELSE Enter([rec EXCEPT !.map_df = DedupMapping(Concat(res.frames)),
                                            !.map_rows = Len(DedupMapping(Concat(res.frames)))],
                                "trunc_map", "ReconcilingMappings")]
  /\ UNCHANGED << account_mapping, budget, sync_logs, env, started >>

\* HTTP handler: load every mapping file; go on without mapping rows if none loaded
SpLoadMappings(r) ==
  /\ run[r].kind = "sharepoint" /\ run[r].pc = "load_map"
  /\ \E files \in FileLists(MapFileSet, run[r].mapping_files) :
       LET res == LoadMappings(files)
           rec == [run[r] EXCEPT !.all_map = res.frames, !.read = files,
                                 !.reported = @ \o Reported("mapping", res.skipped),
                                 !.import_results = @ \o ErrorEntries("mapping", res.skipped)]
       IN  run' = [run EXCEPT ![r] =
                     IF res.frames = << >>
                     THEN [rec EXCEPT !.map_rows = 0, !.pc = "reload",
                                      !.import_results = Append(@, Info("mapping", 0))]
                     ELSE Enter([rec EXCEPT !.map_df = DedupMapping(Concat(res.frames)),
                                            !.map_rows = Len(DedupMapping(Concat(res.frames)))],
                                "trunc_map", "ReconcilingMappings")]
  /\ UNCHANGED << account_mapping, budget, sync_logs, env, started >>

\* run_import: process_mapping_files raises if none loaded
EnhLoadMappings(r) ==
  /\ run[r].kind = "enhanced" /\ run[r].pc = "load_map"
  /\ \E files \in FileLists(MapFileSet, run[r].mapping_files) :
       LET res == LoadMappingsEnhanced(files)
           rec == [run[r] EXCEPT !.all_map = res.frames, !.read = files,
                                 !.reported = @ \o Reported("mapping", res.skipped)]
       IN  run' = [run EXCEPT ![r] =
                     IF res.frames = << >>
                     THEN RaiseRec([rec EXCEPT !.map_rows = 0], "No valid mapping rows found")
                     ELSE Enter([rec EXCEPT !.map_df = DedupMapping(Concat(res.frames)),
                                            !.map_rows = Len(DedupMapping(Concat(res.frames)))],
                                "save_map", "ReconcilingMappings")]
  /\ UNCHANGED << account_mapping, budget, sync_logs, env, started >>

\* with ENGINE.begin(): TRUNCATE TABLE account_mapping  -- committed on its own
TruncMapping(r) ==
  /\ run[r].kind \in {"csv", "sharepoint"} /\ run[r].pc = "trunc_map"
  /\ account_mapping' = << >>
  /\ run' = [run EXCEPT ![r] = [@ EXCEPT !.pc = "insert_map", !.read = << >>,
                                         !.pre = account_mapping,
                                         !.truncated = @ \cup {"account_mapping"}]]
  /\ UNCHANGED << budget, sync_logs, env, started >>

\* map_df.to_sql("account_mapping", if_exists="append"): one transaction; it
\* fails as a whole on a duplicate primary key or when the store fails
InsertMapping(r) ==
  /\ run[r].kind \in {"csv", "sharepoint"} /\ run[r].pc = "insert_map"
  /\ \E dbOk \in BOOLEAN :
       IF dbOk /\ Keys(run[r].map_df) \cap Keys(account_mapping) = {}
       THEN /\ account_mapping' = account_mapping \o run[r].map_df
            /\ run' = [run EXCEPT ![r] =
                         [@ EXCEPT !.pc = "reload",
                                   !.import_results =
                                      IF run[r].kind = "sharepoint"
                                      THEN Append(@, Info("mapping", Len(run[r].map_df)))
                                      ELSE @]]
            /\ UNCHANGED sync_logs
       ELSE /\ UNCHANGED account_mapping
            /\ sync_logs' = RaiseLogs(run[r])
            /\ run' = [run EXCEPT ![r] = RaiseRec(@, "insert failed")]
  /\ UNCHANGED << budget, env, started >>

\* save_mapping_data: INSERT ... ON DUPLICATE KEY UPDATE for every row, one transaction
EnhSaveMapping(r) ==
  /\ run[r].kind = "enhanced" /\ run[r].pc = "save_map"
  /\ \E dbOk \in BOOLEAN :
       IF dbOk
       THEN /\ account_mapping' = Upsert(account_mapping, run[r].map_df)
            /\ run' = [run EXCEPT ![r] = [@ EXCEPT !.pc = "reload", !.pre = account_mapping, !.read = << >>]]
       ELSE /\ UNCHANGED account_mapping
            /\ run' = [run EXCEPT ![r] = RaiseRec(@, "insert failed")]
  /\ UNCHANGED << budget, sync_logs, env, started >>

\* lookup = pd.read_sql("SELECT ... FROM account_mapping").  Of all_map the
\* rest of the run reads only its first frame (total_records), so the other
\* frames are dropped here.
ReloadLookup(r) ==
  /\ run[r].kind \in {"csv", "sharepoint"} /\ run[r].pc = "reload"
  /\ run' = [run EXCEPT ![r] =
               LET rec == [@ EXCEPT !.lookup = account_mapping, !.pre = << >>,
                                    !.map_df = << >>, !.read = << >>,
                                    !.all_map = IF @ = << >> THEN @ ELSE << Head(@) >>]
               IN  IF rec.budget_files = 0
                   THEN [rec EXCEPT !.pc = "finish"]
                   ELSE Enter(rec, "load_bud", "LoadingBudgets")]
  /\ UNCHANGED << account_mapping, budget, sync_logs, env, started >>

\* run_import: reloads the lookup, counts the budget files and reports 'completed'
EnhReloadFinish(r) ==
  /\ run[r].kind = "enhanced" /\ run[r].pc = "reload"
  /\ run' = [run EXCEPT ![r] = Ended(@, "Done", Summary("completed", "", << >>, 0))]
  /\ UNCHANGED << account_mapping, budget, sync_logs, env, started >>

\* ------------------------------------------------------------------------
\* Budget stage
\* ------------------------------------------------------------------------
RECURSIVE SumLen(_)
\* sum(len(df) for df in frames)
SumLen(frames) ==
  IF frames = << >> THEN 0 ELSE Len(Head(frames)) + SumLen(Tail(frames))

\* batch script: load every budget file against the lookup; exit(1) if none
\* loaded (stderr then holds the tracebacks of the skipped files)
CsvLoadBudgets(r) ==
  /\ run[r].kind = "csv" /\ run[r].pc = "load_bud"
  /\ \E files \in FileLists(BudFileSet, run[r].budget_files) :
       LET res == LoadBudgetsBatch(files, run[r].lookup)
           rec == [run[r] EXCEPT !.all_bud = res.frames, !.read = files,
                                 !.reported = @ \o Reported("budget", res.skipped)]
       IN  run' = [run EXCEPT ![r] =
                     IF res.frames = << >>
                     THEN Ended([rec EXCEPT !.bud_rows = 0], "Failed",
                                Summary("error", "traceback", << >>, 500))
                     ELSE Enter([rec EXCEPT !.bud_df = DedupBudget(Concat(res.frames)),
                                            !.bud_rows = Len(DedupBudget(Concat(res.frames)))],
                                "trunc_bud", "ReconcilingBudgets")]
  /\ UNCHANGED << account_mapping, budget, sync_logs, env, started >>

\* HTTP handler: load every budget file; go on without budget rows if none loaded
SpLoadBudgets(r) ==
  /\ run[r].kind = "sharepoint" /\ run[r].pc = "load_bud"
  /\ \E files \in FileLists(BudFileSet, run[r].budget_files) :
       LET res == LoadBudgetsHttp(files, run[r].lookup)
           rec == [run[r] EXCEPT !.all_bud = res.frames, !.read = files,
                                 !.reported = @ \o Reported("budget", res.skipped),
                                 !.import_results = @ \o ErrorEntries("budget", res.skipped)]
       IN  run' = [run EXCEPT ![r] =
                     IF res.frames = << >>
                     THEN [rec EXCEPT !.bud_rows = 0, !.pc = "finish",
                                      !.import_results = Append(@, Info("budget", 0))]
                     ELSE Enter([rec EXCEPT !.bud_df = DedupBudget(Concat(res.frames)),
                                            !.bud_rows = Len(DedupBudget(Concat(res.frames)))],
                                "trunc_bud", "ReconcilingBudgets")]
  /\ UNCHANGED << account_mapping, budget, sync_logs, env, started >>

\* with ENGINE.begin(): TRUNCATE TABLE budget  -- committed on its own
TruncBudget(r) ==
  /\ run[r].kind \in {"csv", "sharepoint"} /\ run[r].pc = "trunc_bud"
  /\ budget' = << >>
  /\ run' = [run EXCEPT ![r] = [@ EXCEPT !.pc = "insert_bud", !.read = << >>, !.lookup = << >>,
                                         !.pre = budget,
                                         !.truncated = @ \cup {"budget"}]]
  /\ UNCHANGED << account_mapping, sync_logs, env, started >>

\* deduped_bud_df.to_sql("budget", if_exists="append"): one transaction
InsertBudget(r) ==
  /\ run[r].kind \in {"csv", "sharepoint"} /\ run[r].pc = "insert_bud"
  /\ \E dbOk \in BOOLEAN :
       IF dbOk
       THEN /\ budget' = budget \o run[r].bud_df
            /\ run' = [run EXCEPT ![r] =
                         [@ EXCEPT !.pc = "finish",
                                   !.import_results =
                                      IF run[r].kind = "sharepoint"
                                      THEN Append(@, Info("budget", Len(run[r].bud_df)))
                                      ELSE @]]
            /\ UNCHANGED sync_logs
       ELSE /\ UNCHANGED budget
            /\ sync_logs' = RaiseLogs(run[r])
            /\ run' = [run EXCEPT ![r] = RaiseRec(@, "insert failed")]
  /\ UNCHANGED << account_mapping, env, started >>

\* ------------------------------------------------------------------------
\* End of a run
\* ------------------------------------------------------------------------
\* batch script ends with exit code 0; /sync-csv answers 'success'
CsvFinish(r) ==
  /\ run[r].kind = "csv" /\ run[r].pc = "finish"
  /\ run' = [run EXCEPT ![r] = Ended(@, "Done", Summary("success", "", << >>, 200))]
  /\ UNCHANGED << account_mapping, budget, sync_logs, env, started >>

\* total_records of the handler
TotalRecords(all_map, all_bud) ==
  (IF all_map # << >> THEN Len(all_map[1]) ELSE 0)
  + (IF all_bud # << >> THEN SumLen(all_bud) ELSE 0)

\* HTTP handler: the 'running' row becomes 'success'; the response lists import_results
SpFinish(r) ==
  /\ run[r].kind = "sharepoint" /\ run[r].pc = "finish"
  /\ sync_logs' = UpdateLog(sync_logs, run[r].sync_log_id, "success",
                            TotalRecords(run[r].all_map, run[r].all_bud))
  /\ run' = [run EXCEPT ![r] =
               Ended(@, "Done", Summary("success", "", @.import_results, 200))]
  /\ UNCHANGED << account_mapping, budget, env, started >>

\* the result has been handed to the caller; the slot is free again
Release(r) ==
  /\ run[r].pc \in Terminal
  /\ run' = [run EXCEPT ![r] = IdleRun]
  /\ UNCHANGED << account_mapping, budget, sync_logs, env, started >>

\* ------------------------------------------------------------------------
\* Specification
\* ------------------------------------------------------------------------
Next ==
  \E r \in Runs :
    \/ TriggerCsv(r)
    \/ TriggerEnhanced(r)
    \/ TriggerSharepoint(r)
    \/ SpCheckRunning(r)
    \/ SpInsertLog(r)
    \/ Discover(r)
    \/ EnhDiscover(r)
    \/ SpDownload(r)
    \/ CsvLoadMappings(r)
    \/ SpLoadMappings(r)
    \/ EnhLoadMappings(r)
    \/ TruncMapping(r)
    \/ InsertMapping(r)
    \/ EnhSaveMapping(r)
    \/ ReloadLookup(r)
    \/ EnhReloadFinish(r)
    \/ CsvLoadBudgets(r)
    \/ SpLoadBudgets(r)
    \/ TruncBudget(r)
    \/ InsertBudget(r)
    \/ CsvFinish(r)
    \/ SpFinish(r)
    \/ Release(r)

Spec == Init /\ [][Next]_vars

SpecOverlap == InitOverlap /\ [][Next]_vars

\* ------------------------------------------------------------------------
\* A cell under the loaders
\* ------------------------------------------------------------------------
store == << account_mapping, budget, sync_logs, sharepoint_env, clients, started, run >>

Mark(removed) == IF removed THEN "removed" ELSE "kept"

\* batch script: df["amount"].apply(parse_european_number)
ParseBatch ==
  /\ amount.batch = Pending
  /\ amount' = [amount EXCEPT !.batch = parse_european_number(amount_cell)]
  /\ UNCHANGED << store, loaders, amount_cell, description, kept >>

\* service: the amount column of process_csv_file
ParseHttp ==
  /\ amount.http = Pending
  /\ amount' = [amount EXCEPT !.http = clean_amount(amount_cell)]
  /\ UNCHANGED << store, loaders, amount_cell, description, kept >>

\* batch script: the structural-row filter
FilterBatch ==
  /\ kept.batch = "pending"
  /\ kept' = [kept EXCEPT !.batch = Mark(StructuralBatch(description))]
  /\ UNCHANGED << store, loaders, amount_cell, description, amount >>

\* service: the structural-row filter of process_csv_file
FilterHttp ==
  /\ kept.http = "pending"
  /\ kept' = [kept EXCEPT !.http = Mark(StructuralHttp(description))]
  /\ UNCHANGED << store, loaders, amount_cell, description, amount >>

NextCells ==
  \/ ParseBatch
  \/ ParseHttp
  \/ FilterBatch
  \/ FilterHttp

SpecCells == InitCells /\ [][NextCells]_vars

\* ------------------------------------------------------------------------
\* A file under the loaders
\* ------------------------------------------------------------------------
cells == << amount_cell, description, amount, kept >>

Read(rows) == [done |-> TRUE, rows |-> rows]

\* batch script: the body of the mapping load loop
LoadMapBatch ==
  /\ ~ map_frames.batch.done /\ raw_full = << >> /\ bf = NoBudgetFile
  /\ map_frames' = [map_frames EXCEPT !.batch = Read(LoadMappingFile(read_csv(mapping_text)))]
  /\ UNCHANGED << store, cells, mapping_text, section_detection, budget_loader >>

\* enhanced script: the body of the loop of process_mapping_files
LoadMapEnhanced ==
  /\ ~ map_frames.enhanced.done /\ raw_full = << >> /\ bf = NoBudgetFile
  /\ map_frames' = [map_frames EXCEPT !.enhanced = Read(LoadMappingFileEnhanced(read_csv(mapping_text)))]
  /\ UNCHANGED << store, cells, mapping_text, section_detection, budget_loader >>

\* service: process_csv_file(file_path, 'account_mapping')
LoadMapHttp ==
  /\ ~ map_frames.http.done /\ raw_full = << >> /\ bf = NoBudgetFile
  /\ map_frames' = [map_frames EXCEPT !.http = Read(LoadMappingFile(read_csv(mapping_text)))]
  /\ UNCHANGED << store, cells, mapping_text, section_detection, budget_loader >>

\* batch script: the section detection for the rows without a mapping,
\* applied to the description of every row the filter keeps
Classify ==
  /\ ~ category.done /\ raw_full # << >>
  /\ category' = Read([i \in DOMAIN raw_full |->
                         IF StructuralBatch(raw_full[i]) THEN "removed"
                         ELSE get_category_from_position(raw_full, raw_full[i])])
  /\ UNCHANGED << store, cells, mapping_loader, raw_full, budget_loader >>

\* batch script: the budget load loop over the file, concat and dedup
ReconcileBatch ==
  /\ ~ deduped_bud_df.batch.done /\ bf # NoBudgetFile
  /\ deduped_bud_df' =
       [deduped_bud_df EXCEPT
          !.batch = Read(DedupBudget(Concat(LoadBudgetsBatch(<< bf >>, lookup_df).frames)))]
  /\ UNCHANGED << store, cells, mapping_loader, section_detection, lookup_df, bf >>

\* service: the budget load loop over the file, concat and dedup
ReconcileHttp ==
  /\ ~ deduped_bud_df.http.done /\ bf # NoBudgetFile
  /\ deduped_bud_df' =
       [deduped_bud_df EXCEPT
          !.http = Read(DedupBudget(Concat(LoadBudgetsHttp(<< bf >>, lookup_df).frames)))]
  /\ UNCHANGED << store, cells, mapping_loader, section_detection, lookup_df, bf >>

NextFiles ==
  \/ LoadMapBatch
  \/ LoadMapEnhanced
  \/ LoadMapHttp
  \/ Classify
  \/ ReconcileBatch
  \/ ReconcileHttp

SpecFiles == InitFiles /\ [][NextFiles]_vars

\* ------------------------------------------------------------------------
\* Properties
\* ------------------------------------------------------------------------
IsPrefix(s, t) == Len(s) <= Len(t) /\ \A i \in DOMAIN s : s[i] = t[i]

Rows(table) == {table[i] : i \in DOMAIN table}

Last(s) == s[Len(s)]

\* positions of the files of a stage that run r has reported as skipped
ReportedIn(r, stage) ==
  {e[2] : e \in {x \in Rows(run[r].reported) : x[1] = stage}}

StoreFailure == {"insert failed", "traceback"}

ProviderFailure == {"client not available", "credentials not configured", "download failed"}

\* C1: the stages of every run occur in the order discovery, mapping load,
\* mapping reconcile, budget load, budget reconcile; a run that is Done has
\* passed every stage once, and budget files are loaded only after this run
\* has replaced account_mapping and re-read it.
C1_StageOrder ==
  \A r \in Runs :
    /\ IsPrefix(run[r].stages, StageOrder)
    /\ run[r].pc = "Done" => run[r].stages = StageOrder
    /\ run[r].pc = "load_bud" => "account_mapping" \in run[r].truncated

\* in flight: accepted and working on the tables
Importing(r) ==
  run[r].pc \in {"discover", "download", "load_map", "trunc_map", "insert_map",
                 "save_map", "reload", "load_bud", "trunc_bud", "insert_bud", "finish"}

\* C2: whatever the interleaving of the triggers, at most one import run is in
\* flight against account_mapping and budget.
C2_SingleRunInFlight ==
  Cardinality({r \in Runs : Importing(r)}) <= 1

\* C3: while a run is between the truncate and the insert of a reconcile
\* step, the table a reader sees holds the complete contents from before the
\* import or the complete new contents.
C3_ReaderSeesCompleteTable ==
  \A r \in Runs :
    /\ run[r].pc = "insert_map" => account_mapping \in {run[r].pre, run[r].map_df}
    /\ run[r].pc = "insert_bud" => budget \in {run[r].pre, run[r].bud_df}

\* C4: when the insert of a reconcile step fails after the truncate, the
\* table holds its complete contents from before the import.
C4_FailedInsertKeepsTable ==
  [][\A r \in Runs :
       /\ (run[r].pc = "insert_map" /\ run'[r].pc = "Failed") => account_mapping' = run[r].pre
       /\ (run[r].pc = "insert_bud" /\ run'[r].pc = "Failed") => budget' = run[r].pre]_vars

\* C5: once a run has completed its mapping reconcile, account_mapping holds
\* exactly the deduplicated rows of that run's mapping files.
C5_MappingRebuiltInFull ==
  \A r \in Runs :
    (run[r].pc = "reload" /\ run[r].stages = SubSeq(StageOrder, 1, 3))
      => Rows(account_mapping) = Rows(run[r].map_df)

\* the mapping (budget) load loop of run r has just ended
MapLoaded(r) == run[r].read # << >> /\ run[r].bud_rows = NotLoaded

BudLoaded(r) == run[r].read # << >> /\ run[r].bud_rows # NotLoaded

BudFails(r, f) ==
  IF run[r].kind = "csv" THEN BudLoadFailsBatch(f, run[r].lookup)
  ELSE BudLoadFailsHttp(f, run[r].lookup)

\* C6: a file that fails to load is skipped and reported, every other file
\* found for the stage is loaded, and a run fails in a load stage only when
\* no file of that stage has loaded.
C6_FailedFilesSkipped ==
  \A r \in Runs :
    /\ MapLoaded(r) =>
         /\ Len(run[r].read) = run[r].mapping_files
         /\ ReportedIn(r, "mapping") = {i \in DOMAIN run[r].read : MapLoadFails(run[r].read[i])}
         /\ Len(run[r].all_map) = Cardinality({i \in DOMAIN run[r].read : ~ MapLoadFails(run[r].read[i])})
         /\ run[r].all_map # << >> => run[r].pc \in {"trunc_map", "save_map"}
    /\ BudLoaded(r) =>
         /\ Len(run[r].read) = run[r].budget_files
         /\ ReportedIn(r, "budget") = {i \in DOMAIN run[r].read : BudFails(r, run[r].read[i])}
         /\ Len(run[r].all_bud) = Cardinality({i \in DOMAIN run[r].read : ~ BudFails(r, run[r].read[i])})
         /\ run[r].all_bud # << >> => run[r].pc = "trunc_bud"
    /\ (run[r].pc = "Failed" /\ run[r].stages # << >>) =>
         /\ Last(run[r].stages) = "LoadingMappings"
              => Cardinality(ReportedIn(r, "mapping")) = run[r].mapping_files
         /\ Last(run[r].stages) = "LoadingBudgets"
              => Cardinality(ReportedIn(r, "budget")) = run[r].budget_files
         /\ Last(run[r].stages) \in {"ReconcilingMappings", "ReconcilingBudgets"}
              => run[r].summary.reason \in StoreFailure

\* a mapping load in which one file failed and another one loaded
C6_Witness ==
  \E r \in Runs :
    /\ run[r].pc = "trunc_map"
    /\ \E i \in DOMAIN run[r].read : MapLoadFails(run[r].read[i])
    /\ \E i \in DOMAIN run[r].read : ~ MapLoadFails(run[r].read[i])

\* C7: every run that has ended hands over a summary with a terminal status
\* and, if the status is a failure, the reason.
C7_SummaryOnEveryExit ==
  \A r \in Runs :
    run[r].pc \in Terminal =>
      /\ run[r].summary.status \in {"completed", "success", "warning", "failed", "error"}
      /\ run[r].summary.status \in {"failed", "error"} => run[r].summary.reason # ""

LoadedFiles(r) ==
  (run[r].mapping_files - Cardinality(ReportedIn(r, "mapping")))
  + (IF run[r].bud_rows # NotLoaded
     THEN run[r].budget_files - Cardinality(ReportedIn(r, "budget")) ELSE 0)

ErrorsListed(r) ==
  {<< e.stage, e.n >> : e \in {x \in Rows(run[r].summary.errors) : x.entry = "error"}}

\* C8: a run in which some files loaded and others were skipped reports
\* success, with one entry in its error list for every skipped file.
C8_PartialSuccessListsSkipped ==
  \A r \in Runs :
    (/\ run[r].kind \in {"enhanced", "sharepoint"}
     /\ run[r].pc \in {"Done", "Failed"}
     /\ run[r].summary.reason \notin StoreFailure
     /\ run[r].reported # << >>
     /\ LoadedFiles(r) > 0)
      => /\ run[r].summary.status \in {"success", "completed"}
         /\ Rows(run[r].reported) \subseteq ErrorsListed(r)

\* discovery of run r has ended (the file provider did not fail)
Discovered(r) ==
  /\ run[r].stages # << >>
  /\ run[r].pc \notin {"discover", "download"}
  /\ run[r].summary.reason \notin ProviderFailure

\* C9: a run stops at discovery exactly when it found no mapping file and no
\* budget file; stopping there signals no error and touches no table.
C9_AbortOnlyWhenNothingFound ==
  \A r \in Runs :
    Discovered(r) =>
      /\ (run[r].pc \in Terminal /\ run[r].stages = << "Discovering" >>)
           <=> (run[r].mapping_files = 0 /\ run[r].budget_files = 0)
      /\ (run[r].pc \in Terminal /\ run[r].stages = << "Discovering" >>)
           => /\ run[r].summary.status \notin {"failed", "error"}
              /\ run[r].truncated = {}

\* C10: a run whose mapping (budget) stage produced no rows ends Failed and
\* does not truncate account_mapping (budget).
C10_ZeroRowsFails ==
  \A r \in Runs :
    /\ run[r].map_rows = 0 =>
         /\ "account_mapping" \notin run[r].truncated
         /\ run[r].pc \in Terminal => run[r].pc = "Failed"
    /\ run[r].bud_rows = 0 =>
         /\ "budget" \notin run[r].truncated
         /\ run[r].pc \in Terminal => run[r].pc = "Failed"

\* position of the first row of a table that satisfies the key test
FirstWith(rows, S) == CHOOSE i \in S : \A j \in S : i <= j

\* C11: the merged mapping table of a run has exactly one row for every
\* account key of its loaded files, and that row is the earliest row with the
\* key in the concatenation of the frames in discovery order.
C11_MappingDedupKeepsFirst ==
  \A r \in Runs :
    (MapLoaded(r) /\ run[r].pc \in {"trunc_map", "save_map"}) =>
      LET cat == Concat(run[r].all_map)
          df  == run[r].map_df
      IN  /\ \A i, j \in DOMAIN df : df[i].AccountKey = df[j].AccountKey => i = j
          /\ Keys(df) = Keys(cat)
          /\ \A i \in DOMAIN df :
               df[i] = cat[FirstWith(cat, {k \in DOMAIN cat : cat[k].AccountKey = df[i].AccountKey})]

\* two loaded mapping files hold the same account key with different contents
C11_Witness ==
  \E r \in Runs :
    /\ MapLoaded(r) /\ run[r].pc = "trunc_map"
    /\ \E i, j \in DOMAIN Concat(run[r].all_map) :
         /\ i < j
         /\ Concat(run[r].all_map)[i].AccountKey = Concat(run[r].all_map)[j].AccountKey
         /\ Concat(run[r].all_map)[i] # Concat(run[r].all_map)[j]

BudKeys(rows) == {BudKey(rows[i]) : i \in DOMAIN rows}

\* C12: the rows a run persists in its budget reconcile hold every tuple
\* (mapping_description, agreement_number, year, month) of the loaded frames
\* once, with the first row of the tuple in the concatenation of the frames,
\* and no two rows of the budget table share such a tuple.
C12_BudgetDedupKeepsFirst ==
  /\ \A i, j \in DOMAIN budget : BudKey(budget[i]) = BudKey(budget[j]) => i = j
  /\ \A r \in Runs :
       run[r].pc \in {"trunc_bud", "insert_bud"} =>
         LET cat == Concat(run[r].all_bud)
             df  == run[r].bud_df
         IN  /\ \A i, j \in DOMAIN df : BudKey(df[i]) = BudKey(df[j]) => i = j
             /\ BudKeys(df) = BudKeys(cat)
             /\ \A i \in DOMAIN df :
                  df[i] = cat[FirstWith(cat, {k \in DOMAIN cat : BudKey(cat[k]) = BudKey(df[i])})]

\* C13: no two rows of the budget table with an account key share
\* (AccountKey, year, month).
C13_BudgetKeyUnique ==
  \A i, j \in DOMAIN budget :
    (/\ budget[i].AccountKey # NoKey
     /\ budget[i].AccountKey = budget[j].AccountKey
     /\ budget[i].year = budget[j].year
     /\ budget[i].month = budget[j].month) => i = j

\* the line items of the files read by run r that have no row in the lookup
UnmatchedItems(r) ==
  UNION {{<< i, k >> : k \in {k \in DOMAIN run[r].read[i].items :
                                Matches(run[r].read[i].items[k], run[r].read[i].agreement,
                                        run[r].lookup) = << >>}} :
           i \in {i \in DOMAIN run[r].read : run[r].read[i].readable}}

ItemAt(r, p) == run[r].read[p[1]].items[p[2]]

\* the budget row of a line item that is kept without an account
CashFlowRow(f, item) ==
  [BudgetRow(f, item, NoMatch) EXCEPT !.sub_category = "Cash Flow"]

\* C14: when the budget load of a run has ended, every line item of the
\* Cash-Flow Statement section that has no mapping is among the rows the run
\* goes on to persist, without account and with sub_category "Cash Flow".
C14_CashFlowKept ==
  \A r \in Runs :
    BudLoaded(r) =>
      \A p \in UnmatchedItems(r) :
        ItemAt(r, p).section = "Cash Flow Statement" =>
          /\ run[r].pc = "trunc_bud"
          /\ \E i \in DOMAIN run[r].bud_df :
               /\ BudKey(run[r].bud_df[i]) = BudKey(CashFlowRow(run[r].read[p[1]], ItemAt(r, p)))
               /\ run[r].bud_df[i].AccountKey = NoKey
               /\ run[r].bud_df[i].account_number = NULL
               /\ run[r].bud_df[i].sub_category = "Cash Flow"

\* the rows without account that the line items of the Cash-Flow Statement
\* section of the input files can give
CashFlowRows ==
  UNION {{CashFlowRow(f, f.items[k]) :
            k \in {k \in DOMAIN f.items : f.items[k].section = "Cash Flow Statement"}} :
           f \in BudFileSet}

\* C15: a row without account key is persisted only for a line item of the
\* Cash-Flow Statement section: among the rows a run goes on to persist, and
\* in the budget table, a row without account key is the row of such an item,
\* never the row of an unmatched item of another section.
C15_OnlyCashFlowWithoutKey ==
  /\ \A i \in DOMAIN budget : budget[i].AccountKey = NoKey => budget[i] \in CashFlowRows
  /\ \A r \in Runs :
       (BudLoaded(r) /\ run[r].pc = "trunc_bud") =>
         \A i \in DOMAIN run[r].bud_df :
           run[r].bud_df[i].AccountKey = NoKey =>
             \E p \in UnmatchedItems(r) :
               /\ ItemAt(r, p).section = "Cash Flow Statement"
               /\ BudKey(run[r].bud_df[i]) = BudKey(CashFlowRow(run[r].read[p[1]], ItemAt(r, p)))

\* a run with a non-empty lookup goes on to persist the rows of a file that
\* holds a line item of the Income Statement section the lookup does not match
C15_Witness ==
  \E r \in Runs :
    /\ BudLoaded(r) /\ run[r].pc = "trunc_bud"
    /\ run[r].lookup # << >>
    /\ \E p \in UnmatchedItems(r) : ItemAt(r, p).section = "Income Statement"

\* C16: both filters remove a row whose description is "TOTAL" in any
\* letter case, and neither removes the row "Total Lease Income".
C16_TotalExactOnly ==
  /\ (kept.batch # "pending" /\ Upper(description) = P_TOTAL) => kept.batch = "removed"
  /\ (kept.http # "pending" /\ Upper(description) = P_TOTAL) => kept.http = "removed"
  /\ (kept.batch # "pending" /\ description = D_TotalLeaseIncome) => kept.batch = "kept"
  /\ (kept.http # "pending" /\ description = D_TotalLeaseIncome) => kept.http = "kept"

\* the description starts with a section banner
StartsWithBanner(d) ==
  \/ BannerAt(Upper(d), 1, P_INCOME_STATEMENT_OPEN)
  \/ BannerAt(Upper(d), 1, P_BALANCE_SHEET_OPEN)
  \/ BannerAt(Upper(d), 1, P_CASH_FLOW_STATEMENT_OPEN)

\* a line item that merely contains one of the banner words
MerelyContains(d) ==
  /\ \/ Contains(Upper(d), P_BALANCE)
     \/ Contains(Upper(d), P_CASH)
     \/ Contains(Upper(d), P_STATEMENT)
  /\ ~ StartsWithBanner(d)
  /\ ~ StartsAt(Upper(d), 1, P_TOTAL)
  /\ ~ StartsAt(Upper(d), 1, P_COMMENT)

\* C17: a row whose description contains "balance", "cash" or "statement"
\* without starting with a section banner is kept by both filters.
C17_BannerAnchored ==
  MerelyContains(description) => (kept.batch # "removed" /\ kept.http # "removed")

\* a cleaned cell: an optional leading minus sign, then digits and the given
\* separator, the separator at least once
Cleaned(cell, sep) ==
  /\ cell # None
  /\ \A i \in DOMAIN Unsigned(cell) : Unsigned(cell)[i] \in Digits \cup {sep}
  /\ Count(cell, sep) > 0

\* the number a cell with periods only stands for
PeriodRule(c) ==
  IF /\ Count(c, ".") = 1
     /\ Len(Before(Unsigned(c), ".")) <= 2
     /\ Len(After(c, ".")) = 1
     /\ After(c, ".") # << "0" >>
     /\ DigitsVal(Before(Unsigned(c), ".")) <= 99
  THEN Float(c)
  ELSE Float(Remove(c, "."))

\* C18: a cleaned cell with periods and no comma, with or without a leading
\* minus sign, is parsed with the period as decimal point when at most 2
\* digits precede it, exactly 1 nonzero digit follows it and the leading
\* number is at most 99, and with every period removed otherwise.
C18_PeriodOnly ==
  Cleaned(amount_cell, ".") =>
    /\ amount.batch # Pending => amount.batch = PeriodRule(amount_cell)
    /\ amount.http # Pending => amount.http = PeriodRule(amount_cell)

\* the number a cell with commas only stands for
CommaRule(c) ==
  IF Count(c, ",") = 1 /\ Len(After(c, ",")) <= 2
  THEN Float(Replace(c, ",", "."))
  ELSE Float(Remove(c, ","))

\* C19: a cleaned cell with commas and no period is parsed by
\* parse_european_number with the comma as decimal point when there is one
\* comma and at most 2 digits follow it, and with every comma removed
\* otherwise.
C19_CommaOnly ==
  (Cleaned(amount_cell, ",") /\ amount.batch # Pending)
    => amount.batch = CommaRule(amount_cell)

\* "1,01" has been parsed as 1.01
C19_Witness ==
  /\ amount_cell = << "1", ",", "0", "1" >>
  /\ amount.batch = [kind |-> "number", mant |-> 101, scale |-> 2]

\* C20: parse_european_number returns a number or null for every cell and
\* never raises; "", None and "-" give null.
C20_ParserNeverRaises ==
  amount.batch # Pending =>
    /\ amount.batch.kind \in {"number", "null"}
    /\ amount_cell \in {None, << >>, << "-" >>} => amount.batch = NullAmount

\* the rows of a mapping file that hold any text, with the text of their cells
Verbatim(text) ==
  LET rows == SelectIdx(text, {i \in DOMAIN text : text[i].account # "" \/ text[i].mapping # ""}, 1)
  IN  [i \in DOMAIN rows |->
         [account_number |-> rows[i].account, mapping_description |-> rows[i].mapping]]

\* the text a stored value stands for
TextOf(v) == IF v = NULL THEN "" ELSE v

Held(frame) ==
  [i \in DOMAIN frame |->
     [account_number      |-> TextOf(frame[i].account_number),
      mapping_description |-> TextOf(frame[i].mapping_description)]]

\* C21: every mapping loader drops exactly the rows whose retained cells are
\* all empty and keeps every other row, rows with the marker #N/A or without
\* a mapping description included, with the values of the file.
C21_OnlyEmptyRowsDropped ==
  \A l \in {"batch", "enhanced", "http"} :
    map_frames[l].done => Held(map_frames[l].rows) = Verbatim(mapping_text)

\* the line items of the readable files a run has read, as <<file, item>>
LineItems(r) ==
  UNION {{<< i, k >> : k \in DOMAIN run[r].read[i].items} :
           i \in {i \in DOMAIN run[r].read : run[r].read[i].readable}}

LineKey(r, p) ==
  << ItemAt(r, p).mapping, run[r].read[p[1]].agreement, run[r].read[p[1]].year, ItemAt(r, p).month >>

\* no line item before p, in the order of reading, has the key of p
FirstOfKey(r, p) ==
  \A q \in LineItems(r) :
    (q[1] < p[1] \/ (q[1] = p[1] /\ q[2] < p[2])) => LineKey(r, q) # LineKey(r, p)

\* row carries the account fields of the mapping row m and the year, month
\* and amount of the line item p
Carries(row, r, p, m) ==
  /\ row.AccountKey = m.AccountKey
  /\ row.account_number = m.account_number
  /\ row.category = m.category
  /\ row.sub_category = m.sub_category
  /\ row.mapping_description = ItemAt(r, p).mapping
  /\ row.agreement_number = run[r].read[p[1]].agreement
  /\ row.year = run[r].read[p[1]].year
  /\ row.month = ItemAt(r, p).month
  /\ row.amount = ItemAt(r, p).amount

\* C22: every budget line of a file the run has read whose description and
\* agreement match a row of the run's lookup (the first line of its key,
\* the later ones being duplicates) is among the rows the run persists,
\* with the account fields of that mapping row, the year of the file, the
\* month of the column and the parsed amount; these rows are in the budget
\* table once the run has written it.
C22_MatchedLinesPersisted ==
  \A r \in Runs :
    /\ (BudLoaded(r) /\ run[r].pc = "trunc_bud") =>
         \A p \in LineItems(r) :
           (FirstOfKey(r, p) /\
            \E k \in DOMAIN run[r].lookup :
              /\ run[r].lookup[k].mapping_description = ItemAt(r, p).mapping
              /\ run[r].lookup[k].agreement_number = run[r].read[p[1]].agreement)
           => \E j \in DOMAIN run[r].bud_df :
                \E k \in DOMAIN run[r].lookup :
                  /\ run[r].lookup[k].mapping_description = ItemAt(r, p).mapping
                  /\ run[r].lookup[k].agreement_number = run[r].read[p[1]].agreement
                  /\ Carries(run[r].bud_df[j], r, p, run[r].lookup[k])
    /\ (run[r].pc = "finish" /\ "budget" \in run[r].truncated) =>
         \A j \in DOMAIN run[r].bud_df : run[r].bud_df[j] \in Rows(budget)

\* C23: a POST /sync-sharepoint whose guard finds a sharepoint_sync row with
\* status 'running' is answered with HTTP 409, and neither that step nor
\* any later step of the request changes sync_logs, account_mapping or
\* budget.
C23_RejectedChangesNothing ==
  [][\A r \in Runs :
       /\ (/\ run[r].kind = "sharepoint" /\ run[r].pc = "check_running"
           /\ run'[r] # run[r]
           /\ \E i \in DOMAIN sync_logs :
                sync_logs[i].entity = "sharepoint_sync" /\ sync_logs[i].status = "running")
          => /\ run'[r].pc = "Rejected"
             /\ run'[r].summary.http = 409
             /\ sync_logs' = sync_logs
             /\ account_mapping' = account_mapping
             /\ budget' = budget
       /\ (run[r].pc = "Rejected" /\ run'[r] # run[r])
          => /\ run'[r].pc = "Idle"
             /\ sync_logs' = sync_logs
             /\ account_mapping' = account_mapping
             /\ budget' = budget]_vars

\* a request has been answered with 409 while the run of another request,
\* which holds the 'running' row, is importing
C23_Witness ==
  \E r, q \in Runs :
    /\ run[r].pc = "Rejected" /\ run[r].summary.http = 409
    /\ run[q].kind = "sharepoint" /\ run[q].sync_log_id # 0
    /\ run[q].pc \notin Terminal
    /\ sync_logs[run[q].sync_log_id].status = "running"

\* the rows a run has written: len(map_df) and len(deduped_bud_df) of the
\* tables it has reloaded
Persisted(r) ==
  (IF "account_mapping" \in run[r].truncated THEN run[r].map_rows ELSE 0)
  + (IF "budget" \in run[r].truncated THEN run[r].bud_rows ELSE 0)

\* C24: when POST /sync-sharepoint has ended with success, the record_count
\* of the run's sync_logs row is the number of rows the run wrote to
\* account_mapping plus the number of rows it wrote to budget.
C24_RecordCountIsRowsPersisted ==
  \A r \in Runs :
    (run[r].kind = "sharepoint" /\ run[r].pc = "Done" /\ run[r].summary.status = "success")
    => sync_logs[run[r].sync_log_id].record_count = Persisted(r)

\* C25: when POST /sync-sharepoint has ended with success, the first entry
\* of GET /sync-history?filter=sharepoint is the log row of that run.
C25_HistoryShowsRun ==
  \A r \in Runs :
    (run[r].kind = "sharepoint" /\ run[r].pc = "Done" /\ run[r].summary.status = "success")
    => /\ get_sync_history(sync_logs, "sharepoint") # << >>
       /\ Head(get_sync_history(sync_logs, "sharepoint")) = sync_logs[run[r].sync_log_id]

\* C26: the HTTP handler and the batch script make the same of every cell
\* of a budget file: the same amount of an amount cell, and the same
\* decision of the structural-row filter on a description.
C26_HandlerMatchesBatch ==
  /\ (amount.batch # Pending /\ amount.http # Pending) => amount.http = amount.batch
  /\ (kept.batch # "pending" /\ kept.http # "pending") => kept.http = kept.batch

\* C27: a POST /sync-sharepoint that has inserted its 'running' row has set
\* that row to 'success' or 'error' when it returns, whatever the exit; so
\* when every request has returned, no sharepoint_sync row is 'running'.
C27_RunningRowClosed ==
  /\ \A r \in Runs :
       (run[r].kind = "sharepoint" /\ run[r].pc \in Terminal /\ run[r].sync_log_id # 0)
       => sync_logs[run[r].sync_log_id].status \in {"success", "error"}
  /\ (\A r \in Runs : run[r].pc \in Terminal \cup {"Idle"})
     => \A i \in DOMAIN sync_logs :
          sync_logs[i].entity = "sharepoint_sync" => sync_logs[i].status # "running"

\* C28: when no import run is under way, every budget row with an account
\* key refers to a row of account_mapping with the same account key, mapping
\* description and agreement number.
C28_BudgetRefersToMapping ==
  (\A r \in Runs : run[r].pc \in Terminal \cup {"Idle"})
  => \A i \in DOMAIN budget :
       budget[i].AccountKey # NoKey
       => \E j \in DOMAIN account_mapping :
            /\ account_mapping[j].AccountKey = budget[i].AccountKey
            /\ account_mapping[j].mapping_description = budget[i].mapping_description
            /\ account_mapping[j].agreement_number = budget[i].agreement_number

\* the row at which a banner first appears, counted from 0
Boundary(raw, m) ==
  (CHOOSE i \in MarkedRows(raw, m) : \A j \in MarkedRows(raw, m) : i <= j) - 1

\* the section that contains the row with index idx
SectionOf(raw, idx) ==
  IF MarkedRows(raw, "cashflow_start") # {} /\ idx >= Boundary(raw, "cashflow_start")
  THEN "Cash Flow Statement"
  ELSE IF MarkedRows(raw, "balance_start") # {} /\ idx >= Boundary(raw, "balance_start")
  THEN "Balance Sheet"
  ELSE IF MarkedRows(raw, "income_start") # {} /\ idx >= Boundary(raw, "income_start")
  THEN "Income Statement"
  ELSE "Unknown"

\* C29: the section detection classifies every row by the section that
\* contains it, the boundary of a section being the row at which its banner
\* first appears: Cash Flow Statement at or after the Cash-Flow banner, else
\* Balance Sheet, else Income Statement, else Unknown.
C29_ClassifiedBySourceRow ==
  category.done =>
    \A i \in DOMAIN raw_full :
      category.rows[i] # "removed" => category.rows[i] = SectionOf(raw_full, i - 1)

\* the positions of the lookup rows that share the description of an item
Sharing(item) ==
  {k \in DOMAIN lookup_df :
     /\ lookup_df[k].mapping_description = item.mapping
     /\ lookup_df[k].agreement_number = bf.agreement}

FirstSharing(item) == CHOOSE k \in Sharing(item) : \A j \in Sharing(item) : k <= j

\* C30: when several rows of the lookup share the description of a budget
\* line, the line is persisted exactly once for its year and month, with
\* the account key of the first of these rows in lookup order, and no row
\* with that description goes to another account.
C30_FanOutFirstAccountOnly ==
  \A l \in {"batch", "http"} :
    deduped_bud_df[l].done =>
      \A k \in DOMAIN bf.items :
        Cardinality(Sharing(bf.items[k])) >= 2 =>
          LET out == deduped_bud_df[l].rows
              first == lookup_df[FirstSharing(bf.items[k])]
          IN  /\ Cardinality({j \in DOMAIN out :
                                BudKey(out[j]) = << bf.items[k].mapping, bf.agreement,
                                                    bf.year, bf.items[k].month >>}) = 1
              /\ \A j \in DOMAIN out :
                   out[j].mapping_description = bf.items[k].mapping
                   => out[j].AccountKey = first.AccountKey
====
